---- MODULE Spec2Model ----
(***************************************************************************)
(* Model of screentracker.py: a sequential stock screener.                 *)
(*   Phase 1  get_stock_tickers : two ticker tables -> one ticker list     *)
(*   Phase 2  get_stock_data    : one fetch per ticker, 200-day average    *)
(*   Phase 3  run_screener      : fillna, threshold filter, report, CSV    *)
(*                                                                         *)
(* Units.  Python floats are modelled as exact fixed-point integers:       *)
(*   P/E and P/B in tenths, dividend yield in hundredths, prices in whole  *)
(*   currency units.  The 200-day average is a mean of 200 closes, so it   *)
(*   is kept as the exact rational  n / MA_WINDOW : the cell holds n.      *)
(* A pandas cell is a tagged value: a number, a string, None or NaN.       *)
(***************************************************************************)
EXTENDS Integers, Sequences, FiniteSets, TLC

VARIABLES
    pc,            \* position of the single thread of control
    resp_sp500,    \* what the S&P 500 page answers (a table, or a failure)
    resp_ftse100,  \* what the FTSE 100 page answers
    sp500,         \* get_stock_tickers: local sp500
    ftse100,       \* get_stock_tickers: local ftse100
    tickers,       \* all_tickers / run_screener: tickers
    idx,           \* position of the for loop of get_stock_data in tickers
    stock_data,    \* get_stock_data: the growing result list
    history,       \* get_stock_data: the closes of stock.history(period="210d")
    ma_200,        \* get_stock_data: local ma_200
    cfg,           \* the module-level filtering criteria
    df,            \* run_screener: the cleaned DataFrame
    final_results, \* run_screener: df[final_filter]
    log            \* the calls and console lines made so far, in order

vars == <<pc, resp_sp500, resp_ftse100, sp500, ftse100, tickers, idx,
          stock_data, history, ma_200, cfg, df, final_results, log>>

----------------------------------------------------------------------------
(* Cell values *)

Num(n) == [tag |-> "num", val |-> n]
Str(s) == [tag |-> "str", val |-> s]
NoneV == [tag |-> "None"]
NaNV == [tag |-> "NaN"]

IsNum(x) == x.tag = "num"
IsNA(x) == x.tag \in {"None", "NaN"}

Min(a, b) == IF a <= b THEN a ELSE b

----------------------------------------------------------------------------
(* Program constants *)

\* MAX_PE_RATIO = 25.0, in tenths
MAX_PE_RATIO == 250
\* MAX_PB_RATIO = 1.5, in tenths
MAX_PB_RATIO == 15
\* MIN_DIV_YIELD = 0.02, in hundredths
MIN_DIV_YIELD == 2
\* MIN_AVG_VOLUME = 100000
MIN_AVG_VOLUME == 100000
\* get_sp500_tickers()[:20]
SP500_SLICE == 20
\* get_ftse100_tickers()[:20]
FTSE100_SLICE == 20
\* len(history) >= 200 and rolling(window=200)
MA_WINDOW == 200

DefaultCfg ==
    [max_pe |-> MAX_PE_RATIO, max_pb |-> MAX_PB_RATIO,
     min_div_yield |-> MIN_DIV_YIELD, min_avg_volume |-> MIN_AVG_VOLUME]

----------------------------------------------------------------------------
(* Bounds of the model *)

\* longest ticker table a page returns when only get_stock_tickers is checked
MaxTableLen == 22
\* longest ticker table a page returns in the whole run
MaxRunTableLen == 1
\* longest ticker list handed to get_stock_data when it is checked alone
MaxTickers == 3
\* longest price history when the moving average is checked alone
MaxHistLen == 203
\* records beyond the first in the record set handed to the filter
MaxExtraRecords == 1

----------------------------------------------------------------------------
(* Phase 1: ticker lists *)

\* Raw symbols as the Wikipedia tables print them, one character per element.
RawSymbols == << <<"M">>, <<"B", ".", "B">>, <<"S", "H">> >>

\* A table of n rows: row i holds RawSymbols[1] (k = 0, every row the same)
\* or cycles through RawSymbols (k = 1).
Table(n, k) == [i \in 1..n |-> RawSymbols[((i * k) % Len(RawSymbols)) + 1]]

Failure == [ok |-> FALSE, rows |-> <<>>]
Page(rows) == [ok |-> TRUE, rows |-> rows]

Pages(maxLen) == {Failure} \cup {Page(Table(n, k)) : n \in 0..maxLen, k \in 0..1}

\* str.replace('.', '-', regex=False): every '.' of the symbol becomes '-'
StrReplaceDot(s) == [i \in 1..Len(s) |-> IF s[i] = "." THEN "-" ELSE s[i]]

\* ftse100_table['Ticker'] + '.L'
AppendDotL(s) == s \o <<".", "L">>

\* get_sp500_tickers: the Symbol column with '.' replaced, or [] on any exception
get_sp500_tickers(resp) ==
    IF resp.ok THEN [i \in 1..Len(resp.rows) |-> StrReplaceDot(resp.rows[i])]
    ELSE <<>>

\* get_ftse100_tickers: the Ticker column with '.L' appended, or [] on any exception
get_ftse100_tickers(resp) ==
    IF resp.ok THEN [i \in 1..Len(resp.rows) |-> AppendDotL(resp.rows[i])]
    ELSE <<>>

\* s[:n]
Slice(s, n) == SubSeq(s, 1, Min(n, Len(s)))

\* mutant: the sources joined in the other order
Concat_swapped(a, b) == b \o a

\* all_tickers = sp500 + ftse100
Concat(a, b) == a \o b

Ev(e, i) == [ev |-> e, i |-> i]

FetchSP500 ==
    /\ pc = "sp500"
    /\ sp500' = Slice(get_sp500_tickers(resp_sp500), SP500_SLICE)
    /\ log' = IF resp_sp500.ok THEN log ELSE Append(log, Ev("error_sp500", 0))
    /\ pc' = "ftse100"
    /\ UNCHANGED <<resp_sp500, resp_ftse100, ftse100, tickers, idx, stock_data,
                   history, ma_200, cfg, df, final_results>>

FetchFTSE100 ==
    /\ pc = "ftse100"
    /\ ftse100' = Slice(get_ftse100_tickers(resp_ftse100), FTSE100_SLICE)
    /\ log' = IF resp_ftse100.ok THEN log ELSE Append(log, Ev("error_ftse100", 0))
    /\ pc' = "combine"
    /\ UNCHANGED <<resp_sp500, resp_ftse100, sp500, tickers, idx, stock_data,
                   history, ma_200, cfg, df, final_results>>

\* get_stock_tickers returns all_tickers to run_screener
CombineTickers ==
    /\ pc = "combine"
    /\ tickers' = Concat(sp500, ftse100)
    /\ pc' = "check_tickers"
    /\ UNCHANGED <<resp_sp500, resp_ftse100, sp500, ftse100, idx, stock_data,
                   history, ma_200, cfg, df, final_results, log>>

InitCommon ==
    /\ sp500 = <<>>
    /\ ftse100 = <<>>
    /\ tickers = <<>>
    /\ idx = 1
    /\ stock_data = <<>>
    /\ history = <<>>
    /\ ma_200 = Num(0)
    /\ cfg = DefaultCfg
    /\ df = <<>>
    /\ final_results = <<>>
    /\ log = <<>>

InitTickers ==
    /\ pc = "sp500"
    /\ resp_sp500 \in Pages(MaxTableLen)
    /\ resp_ftse100 \in Pages(MaxTableLen)
    /\ InitCommon

NextTickers == FetchSP500 \/ FetchFTSE100 \/ CombineTickers

SpecTickers == InitTickers /\ [][NextTickers]_vars

----------------------------------------------------------------------------
(* Phase 2: per-ticker data *)

\* stock.info: a mapping whose keys may be absent (info.get gives None)
Info(name, sector, pe, pb, vol, div, price) ==
    [shortName |-> name, sector |-> sector, trailingPE |-> pe,
     priceToBook |-> pb, averageVolume |-> vol, dividendYield |-> div,
     currentPrice |-> price]

\* P/E 18, P/B 1.2, yield 3%, volume 500000, price 110
InfoX == Info(Str("X plc"), Str("Energy"), Num(180), Num(12), Num(500000), Num(3), Num(110))
\* as InfoX with P/E 30
InfoY == Info(Str("Y plc"), Str("Energy"), Num(300), Num(12), Num(500000), Num(3), Num(110))
\* as InfoX, the provider reporting no trailingPE and no sector
InfoNoPE == Info(Str("Z plc"), NoneV, NoneV, Num(12), Num(500000), Num(3), Num(110))

Infos == {InfoX, InfoY, InfoNoPE}

\* history['Close'] of n rows: every close 100 (v = 0), closes cycling through
\* 95..105 (v = 1), or as v = 1 with a NaN close three rows before the end (v = 2)
Closes(n, v) ==
    [i \in 1..n |->
        IF v = 0 THEN Num(100)
        ELSE IF v = 2 /\ i = n - 3 THEN NaNV
        ELSE Num(95 + (i % 11))]

\* the histories the provider returns during a run: one row short of the
\* window, and exactly the window
Histories == {Closes(MA_WINDOW - 1, 0), Closes(MA_WINDOW, 0)}

RECURSIVE SumVals(_, _, _)
SumVals(c, lo, hi) ==
    IF lo > hi THEN 0
    ELSE IF lo = hi THEN c[lo].val
    ELSE LET mid == (lo + hi) \div 2
         IN  SumVals(c, lo, mid) + SumVals(c, mid + 1, hi)

\* mean of c[lo..hi] as the numerator over (hi - lo + 1); NaN with fewer valid
\* observations than the window (min_periods defaults to the window)
WindowMean(c, lo, hi) ==
    IF \E j \in lo..hi : ~IsNum(c[j]) THEN NaNV ELSE Num(SumVals(c, lo, hi))

\* Series.rolling(window=w).mean()
RollingMean(c, w) ==
    [i \in 1..Len(c) |-> IF i < w THEN NaNV ELSE WindowMean(c, i - w + 1, i)]

\* .iloc[-1]
ILocLast(s) == s[Len(s)]

\* mutant: the length test written with > instead of >=
ComputeMA200_strict(h) ==
    IF Len(h) > MA_WINDOW THEN ILocLast(RollingMean(h, MA_WINDOW)) ELSE Num(0)

\* ma_200 = 0; if len(history) >= 200: ma_200 = ...rolling(window=200).mean().iloc[-1]
ComputeMA200(h) ==
    IF Len(h) >= MA_WINDOW THEN ILocLast(RollingMean(h, MA_WINDOW)) ELSE Num(0)

\* data = {...}
MakeData(ticker, info, ma) ==
    [Symbol |-> ticker, Company |-> info.shortName, Sector |-> info.sector,
     PE |-> info.trailingPE, PB |-> info.priceToBook,
     AvgVolume |-> info.averageVolume, DivYield |-> info.dividendYield,
     CurrentPrice |-> info.currentPrice, DMA200 |-> ma]

\* f"{data['P/E']:.2f}" raises TypeError for None
CanFormat2f(x) == x.tag \in {"num", "NaN"}

\* mutant: the record is inserted at the head of the list
FetchOK_prepend ==
    /\ pc = "loop"
    /\ idx <= Len(tickers)
    /\ \E info \in Infos, h \in Histories :
          /\ history' = h
          /\ ma_200' = ComputeMA200(h)
          /\ stock_data' = <<MakeData(tickers[idx], info, ComputeMA200(h))>> \o stock_data
    /\ log' = Append(log, Ev("fetch", idx))
    /\ pc' = "print"
    /\ UNCHANGED <<resp_sp500, resp_ftse100, sp500, ftse100, tickers, idx, cfg,
                   df, final_results>>

\* lines 118-145: the provider answers, the record is built and appended
FetchOK ==
    /\ pc = "loop"
    /\ idx <= Len(tickers)
    /\ \E info \in Infos, h \in Histories :
          /\ history' = h
          /\ ma_200' = ComputeMA200(h)
          /\ stock_data' = Append(stock_data, MakeData(tickers[idx], info, ComputeMA200(h)))
    /\ log' = Append(log, Ev("fetch", idx))
    /\ pc' = "print"
    /\ UNCHANGED <<resp_sp500, resp_ftse100, sp500, ftse100, tickers, idx, cfg,
                   df, final_results>>

\* lines 118-143: yf.Ticker, stock.info or stock.history raises
FetchRaise ==
    /\ pc = "loop"
    /\ idx <= Len(tickers)
    /\ log' = Append(log, Ev("fetch", idx))
    /\ pc' = "except"
    /\ UNCHANGED <<resp_sp500, resp_ftse100, sp500, ftse100, tickers, idx,
                   stock_data, history, ma_200, cfg, df, final_results>>

\* lines 148-149: the progress line, formatting P/E with :.2f
PrintFetched ==
    /\ pc = "print"
    /\ IF CanFormat2f(stock_data[Len(stock_data)].PE)
          THEN /\ log' = Append(log, Ev("fetched", idx))
               /\ pc' = "sleep"
          ELSE /\ log' = log
               /\ pc' = "except"
    /\ UNCHANGED <<resp_sp500, resp_ftse100, sp500, ftse100, tickers, idx,
                   stock_data, history, ma_200, cfg, df, final_results>>

\* line 152: time.sleep(1) after a fetched ticker
SleepAfterFetch ==
    /\ pc = "sleep"
    /\ log' = Append(log, Ev("sleep", idx))
    /\ idx' = idx + 1
    /\ pc' = "loop"
    /\ UNCHANGED <<resp_sp500, resp_ftse100, sp500, ftse100, tickers,
                   stock_data, history, ma_200, cfg, df, final_results>>

\* mutant: the handler logs the ticker and does not sleep
ExceptHandler_nosleep ==
    /\ pc = "except"
    /\ log' = Append(log, Ev("error", idx))
    /\ idx' = idx + 1
    /\ pc' = "loop"
    /\ UNCHANGED <<resp_sp500, resp_ftse100, sp500, ftse100, tickers,
                   stock_data, history, ma_200, cfg, df, final_results>>

\* lines 154-157: the handler logs the ticker and sleeps
ExceptHandler ==
    /\ pc = "except"
    /\ log' = log \o <<Ev("error", idx), Ev("sleep", idx)>>
    /\ idx' = idx + 1
    /\ pc' = "loop"
    /\ UNCHANGED <<resp_sp500, resp_ftse100, sp500, ftse100, tickers,
                   stock_data, history, ma_200, cfg, df, final_results>>

\* line 159: the loop is exhausted, return stock_data
ReturnStockData ==
    /\ pc = "loop"
    /\ idx > Len(tickers)
    /\ pc' = "check_data"
    /\ UNCHANGED <<resp_sp500, resp_ftse100, sp500, ftse100, tickers, idx,
                   stock_data, history, ma_200, cfg, df, final_results, log>>

\* the ticker lists get_stock_data is given when checked alone
Symbols == {StrReplaceDot(RawSymbols[2]), AppendDotL(RawSymbols[3])}

TickerLists == UNION {[1..n -> Symbols] : n \in 0..MaxTickers}

InitData ==
    /\ pc = "loop"
    /\ resp_sp500 = Failure
    /\ resp_ftse100 = Failure
    /\ sp500 = <<>>
    /\ ftse100 = <<>>
    /\ tickers \in TickerLists
    /\ idx = 1
    /\ stock_data = <<>>
    /\ history = <<>>
    /\ ma_200 = Num(0)
    /\ cfg = DefaultCfg
    /\ df = <<>>
    /\ final_results = <<>>
    /\ log = <<>>

NextData ==
    \/ FetchOK
    \/ FetchRaise
    \/ PrintFetched
    \/ SleepAfterFetch
    \/ ExceptHandler
    \/ ReturnStockData

SpecData == InitData /\ [][NextData]_vars

\* the moving average alone: any history, then lines 128-130
HistoryInputs == {Closes(n, v) : n \in 0..MaxHistLen, v \in 0..2}

InitMA ==
    /\ pc = "ma"
    /\ resp_sp500 = Failure
    /\ resp_ftse100 = Failure
    /\ sp500 = <<>>
    /\ ftse100 = <<>>
    /\ tickers = <<>>
    /\ idx = 1
    /\ stock_data = <<>>
    /\ history \in HistoryInputs
    /\ ma_200 = Num(0)
    /\ cfg = DefaultCfg
    /\ df = <<>>
    /\ final_results = <<>>
    /\ log = <<>>

MovingAverage ==
    /\ pc = "ma"
    /\ ma_200' = ComputeMA200(history)
    /\ pc' = "ma_done"
    /\ UNCHANGED <<resp_sp500, resp_ftse100, sp500, ftse100, tickers, idx,
                   stock_data, history, cfg, df, final_results, log>>

NextMA == MovingAverage

SpecMA == InitMA /\ [][NextMA]_vars

----------------------------------------------------------------------------
(* Phase 3: run_screener *)

\* line 171-173: no tickers, a message and a normal return
ExitNoTickers ==
    /\ pc = "check_tickers"
    /\ tickers = <<>>
    /\ log' = Append(log, Ev("no_tickers", 0))
    /\ pc' = "done"
    /\ UNCHANGED <<resp_sp500, resp_ftse100, sp500, ftse100, tickers, idx,
                   stock_data, history, ma_200, cfg, df, final_results>>

\* line 176: get_stock_data(tickers) is entered
StartStockData ==
    /\ pc = "check_tickers"
    /\ tickers # <<>>
    /\ pc' = "loop"
    /\ UNCHANGED <<resp_sp500, resp_ftse100, sp500, ftse100, tickers, idx,
                   stock_data, history, ma_200, cfg, df, final_results, log>>

\* mutant: the empty-list test is missing and the run goes on
ExitNoData_fallthrough ==
    /\ pc = "check_data"
    /\ stock_data = <<>>
    /\ df' = <<>>
    /\ log' = Append(log, Ev("raw_data", 0))
    /\ pc' = "filter"
    /\ UNCHANGED <<resp_sp500, resp_ftse100, sp500, ftse100, tickers, idx,
                   stock_data, history, ma_200, cfg, final_results>>

\* line 178-180: no records, a message and a normal return
ExitNoData ==
    /\ pc = "check_data"
    /\ stock_data = <<>>
    /\ log' = Append(log, Ev("no_data", 0))
    /\ pc' = "done"
    /\ UNCHANGED <<resp_sp500, resp_ftse100, sp500, ftse100, tickers, idx,
                   stock_data, history, ma_200, cfg, df, final_results>>

\* fillna(0) of one cell
FillCell(x) == IF IsNA(x) THEN Num(0) ELSE x

\* df.fillna(0) of one row; Symbol is the index, which fillna leaves alone
FillRow(r) ==
    [Symbol |-> r.Symbol, Company |-> FillCell(r.Company),
     Sector |-> FillCell(r.Sector), PE |-> FillCell(r.PE), PB |-> FillCell(r.PB),
     AvgVolume |-> FillCell(r.AvgVolume), DivYield |-> FillCell(r.DivYield),
     CurrentPrice |-> FillCell(r.CurrentPrice), DMA200 |-> FillCell(r.DMA200)]

\* pd.DataFrame(stock_data).set_index('Symbol').fillna(0)
FillNa(rows) == [i \in 1..Len(rows) |-> FillRow(rows[i])]

\* pd.to_numeric of a numeric cell
ToNumeric(x) == x.val

\* mutant: P/E compared with <= instead of <
conditie_pe_nonstrict(r, c) == ToNumeric(r.PE) <= c.max_pe
\* mutant: P/E compared in the wrong direction
conditie_pe_flipped(r, c) == ToNumeric(r.PE) > c.max_pe
conditie_pe(r, c) == ToNumeric(r.PE) < c.max_pe
conditie_pb(r, c) == ToNumeric(r.PB) < c.max_pb
conditie_div(r, c) == ToNumeric(r.DivYield) > c.min_div_yield
conditie_volum(r, c) == ToNumeric(r.AvgVolume) > c.min_avg_volume
\* Current Price > 200-DMA, the average being DMA200 / MA_WINDOW
conditie_ma(r) == ToNumeric(r.CurrentPrice) * MA_WINDOW > ToNumeric(r.DMA200)
\* mutant: P/E validity written with >= instead of >
conditie_validitate_nonstrict(r) == ToNumeric(r.PE) >= 0 /\ ToNumeric(r.PB) > 0
conditie_validitate(r) == ToNumeric(r.PE) > 0 /\ ToNumeric(r.PB) > 0
conditie_ma_validitate(r) == ToNumeric(r.DMA200) > 0

final_filter(r, c) ==
    /\ conditie_pe(r, c)
    /\ conditie_pb(r, c)
    /\ conditie_div(r, c)
    /\ conditie_ma(r)
    /\ conditie_volum(r, c)
    /\ conditie_validitate(r)
    /\ conditie_ma_validitate(r)

\* df[final_filter]
ApplyMask(rows, c) == SelectSeq(rows, LAMBDA r : final_filter(r, c))

\* lines 183-193: the DataFrame is built, cleaned and dumped
BuildFrame ==
    /\ pc = "check_data"
    /\ stock_data # <<>>
    /\ df' = FillNa(stock_data)
    /\ log' = Append(log, Ev("raw_data", 0))
    /\ pc' = "filter"
    /\ UNCHANGED <<resp_sp500, resp_ftse100, sp500, ftse100, tickers, idx,
                   stock_data, history, ma_200, cfg, final_results>>

\* lines 197-226: the conditions are combined and applied
ApplyFilter ==
    /\ pc = "filter"
    /\ final_results' = ApplyMask(df, cfg)
    /\ log' = Append(log, Ev("filter", 0))
    /\ pc' = "report"
    /\ UNCHANGED <<resp_sp500, resp_ftse100, sp500, ftse100, tickers, idx,
                   stock_data, history, ma_200, cfg, df>>

\* mutant: the export is outside the else branch
ReportNoMatch_export ==
    /\ pc = "report"
    /\ final_results = <<>>
    /\ log' = log \o <<Ev("no_match", 0), Ev("to_csv", 0), Ev("saved", 0)>>
    /\ pc' = "done"
    /\ UNCHANGED <<resp_sp500, resp_ftse100, sp500, ftse100, tickers, idx,
                   stock_data, history, ma_200, cfg, df, final_results>>

\* lines 228-230: the no-match notice
ReportNoMatch ==
    /\ pc = "report"
    /\ final_results = <<>>
    /\ log' = Append(log, Ev("no_match", 0))
    /\ pc' = "done"
    /\ UNCHANGED <<resp_sp500, resp_ftse100, sp500, ftse100, tickers, idx,
                   stock_data, history, ma_200, cfg, df, final_results>>

\* lines 231-244: the success line and the table
ReportSuccess ==
    /\ pc = "report"
    /\ final_results # <<>>
    /\ log' = Append(log, Ev("success", Len(final_results)))
    /\ pc' = "save"
    /\ UNCHANGED <<resp_sp500, resp_ftse100, sp500, ftse100, tickers, idx,
                   stock_data, history, ma_200, cfg, df, final_results>>

\* lines 247-258: to_csv is called; it writes the file or raises, and the
\* exception is caught and logged
SaveCsv ==
    /\ pc = "save"
    /\ \E written \in BOOLEAN :
          log' = log \o <<Ev("to_csv", Len(final_results)),
                          Ev(IF written THEN "saved" ELSE "csv_error", 0)>>
    /\ pc' = "done"
    /\ UNCHANGED <<resp_sp500, resp_ftse100, sp500, ftse100, tickers, idx,
                   stock_data, history, ma_200, cfg, df, final_results>>

Init ==
    /\ pc = "sp500"
    /\ resp_sp500 \in Pages(MaxRunTableLen)
    /\ resp_ftse100 \in Pages(MaxRunTableLen)
    /\ InitCommon

Next ==
    \/ FetchSP500
    \/ FetchFTSE100
    \/ CombineTickers
    \/ ExitNoTickers
    \/ StartStockData
    \/ FetchOK
    \/ FetchRaise
    \/ PrintFetched
    \/ SleepAfterFetch
    \/ ExceptHandler
    \/ ReturnStockData
    \/ ExitNoData
    \/ BuildFrame
    \/ ApplyFilter
    \/ ReportNoMatch
    \/ ReportSuccess
    \/ SaveCsv

Spec == Init /\ [][Next]_vars

----------------------------------------------------------------------------
(* The filter alone: any record set and any thresholds, then lines 183-226 *)

PEValues == {NoneV, Num(-10), Num(0), Num(180), Num(250), Num(300)}
PBValues == {NoneV, Num(0), Num(12), Num(15)}
DivValues == {NoneV, Num(2), Num(3)}
VolValues == {NoneV, Num(100000), Num(500000)}
PriceValues == {NoneV, Num(100), Num(110)}
\* not computed, NaN, a mean of 100 and a mean of 109.995
MAValues == {Num(0), NaNV, Num(100 * MA_WINDOW), Num(110 * MA_WINDOW - 1)}

AnyRecords ==
    {MakeData(StrReplaceDot(RawSymbols[2]),
              Info(Str("W plc"), NoneV, pe, pb, vol, div, price), ma) :
        pe \in PEValues, pb \in PBValues, vol \in VolValues, div \in DivValues,
        price \in PriceValues, ma \in MAValues}

\* the two records of the end-to-end scenario: X passes the default
\* thresholds, Y has P/E 30
ScenarioRecords ==
    {MakeData(AppendDotL(RawSymbols[3]), InfoX, Num(100 * MA_WINDOW)),
     MakeData(AppendDotL(RawSymbols[3]), InfoY, Num(100 * MA_WINDOW))}

ExtraRecords == UNION {[1..n -> ScenarioRecords] : n \in 0..MaxExtraRecords}

RecordSets == {<<r>> \o t : r \in AnyRecords, t \in ExtraRecords}

MaxPeValues == {200, MAX_PE_RATIO, 300}

Cfgs ==
    {[DefaultCfg EXCEPT !.max_pe = m] : m \in MaxPeValues}
    \cup {[DefaultCfg EXCEPT !.max_pb = 10],
          [DefaultCfg EXCEPT !.min_div_yield = 3],
          [DefaultCfg EXCEPT !.min_avg_volume = 500000],
          [max_pe |-> 300, max_pb |-> 10, min_div_yield |-> 1,
           min_avg_volume |-> 50000]}

InitFilter ==
    /\ pc = "check_data"
    /\ resp_sp500 = Failure
    /\ resp_ftse100 = Failure
    /\ sp500 = <<>>
    /\ ftse100 = <<>>
    /\ tickers = <<>>
    /\ idx = 1
    /\ stock_data \in RecordSets
    /\ history = <<>>
    /\ ma_200 = Num(0)
    /\ cfg \in Cfgs
    /\ df = <<>>
    /\ final_results = <<>>
    /\ log = <<>>

NextFilter == BuildFrame \/ ApplyFilter

SpecFilter == InitFilter /\ [][NextFilter]_vars

----------------------------------------------------------------------------
(* Properties *)

HasEv(e) == \E k \in 1..Len(log) : log[k].ev = e
CountEv(e) == Cardinality({k \in 1..Len(log) : log[k].ev = e})

\* the six conditions of the filter on a cleaned row, written out
SixConditions(r, c) ==
    /\ 0 < r.PE.val /\ r.PE.val < c.max_pe
    /\ 0 < r.PB.val /\ r.PB.val < c.max_pb
    /\ r.DivYield.val > c.min_div_yield
    /\ r.AvgVolume.val > c.min_avg_volume
    /\ r.CurrentPrice.val * MA_WINDOW > r.DMA200.val
    /\ r.DMA200.val > 0

PassingRows(c) == {i \in 1..Len(df) : SixConditions(df[i], c)}

\* s is r with the rows at the positions of keep, in order
IsSelection(s, r, keep) ==
    /\ Len(s) = Cardinality(keep)
    /\ \A j \in 1..Len(s) :
          \E i \in keep :
             /\ s[j] = r[i]
             /\ Cardinality({k \in keep : k < i}) = j - 1

\* C1: after the filter step the result holds exactly the rows of the frame
\* that satisfy all six strict conditions, in frame order: no other row is
\* kept and no passing row is dropped.
C1_FilterKeepsExactlyPassing ==
    pc = "report" => IsSelection(final_results, df, PassingRows(cfg))

\* C1 witness: a filtered frame of which one row is kept and another dropped
C1_Witness ==
    /\ pc = "report"
    /\ final_results # <<>>
    /\ Len(final_results) < Len(df)

\* a cell that is 0 or was missing
ZeroOrMissing(x) == IsNA(x) \/ (IsNum(x) /\ x.val = 0)

\* C3: a record whose P/E, P/B or 200-DMA is 0, or is missing and so
\* defaulted to 0, is never in the filtered result.
C3_ZeroNeverPasses ==
    pc = "report" =>
        \A i \in 1..Len(stock_data) :
            (\/ ZeroOrMissing(stock_data[i].PE)
             \/ ZeroOrMissing(stock_data[i].PB)
             \/ ZeroOrMissing(stock_data[i].DMA200))
            => \A j \in 1..Len(final_results) : final_results[j] # df[i]

\* C3 witness: a record with no P/E whose every other field would pass
C3_Witness ==
    /\ pc = "report"
    /\ stock_data[1].PE = NoneV
    /\ stock_data[1].PB = Num(12)
    /\ stock_data[1].DivYield = Num(3)
    /\ stock_data[1].AvgVolume = Num(500000)
    /\ stock_data[1].CurrentPrice = Num(110)
    /\ stock_data[1].DMA200 = Num(100 * MA_WINDOW)
    /\ final_results # <<>>

\* the positions of the frame kept under thresholds c
KeptUnder(c) == {i \in 1..Len(df) : final_filter(df[i], c)}

\* C9: with the record set and the other thresholds fixed, every max_pe'
\* at or below max_pe keeps a subset of what max_pe keeps.
C9_MonotonicInMaxPe ==
    pc = "report" =>
        /\ IsSelection(final_results, df, KeptUnder(cfg))
        /\ \A m \in {x \in MaxPeValues \cup {0, 181} : x <= cfg.max_pe} :
              LET tight == [cfg EXCEPT !.max_pe = m]
              IN  /\ KeptUnder(tight) \subseteq KeptUnder(cfg)
                  /\ Len(ApplyMask(df, tight)) <= Len(final_results)

\* C9 witness: lowering max_pe strictly shrinks a non-empty result
C9_Witness ==
    /\ pc = "report"
    /\ final_results # <<>>
    /\ \E m \in MaxPeValues :
          /\ m < cfg.max_pe
          /\ Len(ApplyMask(df, [cfg EXCEPT !.max_pe = m])) < Len(final_results)

----------------------------------------------------------------------------
(* get_stock_data *)

\* the fetch attempts and the delays of the log, in order
Pacing == SelectSeq(log, LAMBDA e : e.ev \in {"fetch", "sleep"})

\* C2: a symbol whose processing raised is logged and skipped entirely, so
\* outside the progress line the list holds a record only for the symbols
\* reported as fetched, and every finished symbol is either fetched or
\* logged as an error.
C2_FailedSymbolLeavesNoRecord ==
    /\ pc # "print" => Len(stock_data) = CountEv("fetched")
    /\ pc \in {"loop", "check_data"} =>
          CountEv("fetched") + CountEv("error") = idx - 1

\* C4: attempts and delays alternate, starting with an attempt: the k-th
\* attempt is for position k and is followed by the delay of position k
\* before the next attempt; at a loop boundary, and on return, every
\* attempt so far has had its delay, one per input symbol.
C4_OneDelayAfterEveryAttempt ==
    /\ \A k \in 1..Len(Pacing) :
          /\ Pacing[k].ev = (IF k % 2 = 1 THEN "fetch" ELSE "sleep")
          /\ Pacing[k].i = (k + 1) \div 2
    /\ pc \in {"loop", "check_data"} => Len(Pacing) = 2 * (idx - 1)
    /\ pc \in {"print", "sleep", "except"} => Len(Pacing) = 2 * idx - 1
    /\ pc = "check_data" =>
          /\ CountEv("sleep") = Len(tickers)
          /\ CountEv("fetch") = Len(tickers)

\* C4 witness: a finished loop over two or more symbols in which one symbol
\* was fetched and another raised
C4_Witness ==
    /\ pc = "check_data"
    /\ Len(tickers) >= 2
    /\ HasEv("fetched")
    /\ HasEv("error")
    /\ stock_data # <<>>

\* a is b with some elements left out, the rest in order
RECURSIVE IsSubsequence(_, _)
IsSubsequence(a, b) ==
    IF a = <<>> THEN TRUE
    ELSE IF b = <<>> THEN FALSE
    ELSE IF Head(a) = Head(b) THEN IsSubsequence(Tail(a), Tail(b))
    ELSE IsSubsequence(a, Tail(b))

SymbolsOf(rows) == [i \in 1..Len(rows) |-> rows[i].Symbol]

\* the positions whose processing has begun
Started == CountEv("fetch")

PcRank ==
    CASE pc = "loop" -> 0
      [] pc = "print" -> 1
      [] pc \in {"sleep", "except"} -> 2
      [] OTHER -> 3

\* progress of the loop: strictly larger after every step
Progress == 4 * idx + PcRank

C10_ListInv ==
    /\ Len(stock_data) <= Started
    /\ Started <= Len(tickers)
    /\ IsSubsequence(SymbolsOf(stock_data), SubSeq(tickers, 1, Started))
    /\ \A k \in 1..Len(log) :
          log[k].ev = "fetch" =>
             log[k].i = Cardinality({j \in 1..k : log[j].ev = "fetch"})
    /\ pc = "check_data" => Started = Len(tickers)
    /\ pc # "check_data" => ENABLED NextData
    /\ Progress <= 4 * (Len(tickers) + 1) + 3

C10_ListStep ==
    /\ \/ stock_data' = stock_data
       \/ /\ pc = "loop"
          /\ Len(stock_data') = Len(stock_data) + 1
          /\ SubSeq(stock_data', 1, Len(stock_data)) = stock_data
          /\ stock_data'[Len(stock_data')].Symbol = tickers[idx]
    /\ (pc = "loop" /\ pc' = "print") => stock_data' # stock_data
    /\ Progress' > Progress
    /\ tickers' = tickers

\* C10: the list only grows by appending the record of the symbol being
\* processed; it is a subsequence, by symbol, of the symbols started so far
\* (at most one record per position, input order kept, no deduplication);
\* positions are attempted once each in input order; and every step makes
\* progress towards the return, which is reached with every position visited.
C10_AppendOnlyInOrder == [][C10_ListStep]_vars /\ []C10_ListInv

\* C10 witness: a returned list for three symbols, the first and last the
\* same symbol and both with a record, the middle one skipped
C10_Witness ==
    /\ pc = "check_data"
    /\ Len(tickers) = 3
    /\ tickers[1] = tickers[3]
    /\ tickers[2] # tickers[1]
    /\ Len(stock_data) = 2
    /\ stock_data[1].Symbol = stock_data[2].Symbol

----------------------------------------------------------------------------
(* run_screener *)

LastEv == log[Len(log)].ev

LaterPhases == {"raw_data", "filter", "no_match", "success", "to_csv", "saved", "csv_error"}

\* C5: the run returns early, with its message, exactly when the ticker
\* list is empty (both sources gave nothing; then no fetch was attempted)
\* or when no record was fetched (then nothing is cleaned, filtered,
\* reported or saved).  In every other run a failed source, a failed symbol
\* or a failed export is logged and the run goes on to filter and report.
C5_EarlyExitExactlyTwoCases ==
    /\ HasEv("no_tickers") <=> (pc = "done" /\ tickers = <<>>)
    /\ HasEv("no_tickers") =>
          /\ LastEv = "no_tickers"
          /\ sp500 = <<>> /\ ftse100 = <<>>
          /\ ~HasEv("fetch")
          /\ \A e \in LaterPhases \cup {"no_data"} : ~HasEv(e)
    /\ HasEv("no_data") <=> (pc = "done" /\ tickers # <<>> /\ stock_data = <<>>)
    /\ HasEv("no_data") =>
          /\ LastEv = "no_data"
          /\ CountEv("fetch") = Len(tickers)
          /\ \A e \in LaterPhases : ~HasEv(e)
    /\ (pc = "done" /\ stock_data # <<>>) =>
          /\ HasEv("filter")
          /\ LastEv \in {"no_match", "saved", "csv_error"}
          /\ CountEv("fetch") = Len(tickers)
    /\ (pc \notin {"sp500", "ftse100", "combine", "check_tickers"} /\ tickers = <<>>)
          => pc = "done"
    /\ (pc \in {"filter", "report", "save"}) => stock_data # <<>>

\* C5 witness: a finished run in which a symbol raised and the export
\* failed, and which still reported its result
C5_Witness ==
    /\ pc = "done"
    /\ HasEv("error")
    /\ HasEv("success")
    /\ LastEv = "csv_error"

\* C6: the no-match notice is given exactly when the filtered set is empty,
\* which is when no row of the frame satisfies the six conditions, and then
\* no export is attempted; an export is attempted only for a non-empty set.
C6_NoMatchNoExport ==
    /\ HasEv("no_match") =>
          /\ final_results = <<>>
          /\ PassingRows(cfg) = {}
          /\ ~HasEv("to_csv") /\ ~HasEv("saved") /\ ~HasEv("success")
    /\ (HasEv("to_csv") \/ HasEv("saved")) =>
          /\ final_results # <<>>
          /\ PassingRows(cfg) # {}
    /\ (pc = "done" /\ HasEv("filter") /\ PassingRows(cfg) = {}) =>
          /\ LastEv = "no_match"
          /\ ~HasEv("to_csv")
    /\ (pc = "done" /\ HasEv("filter") /\ PassingRows(cfg) # {}) =>
          CountEv("to_csv") = 1

\* C6 witness: a finished run whose frame has rows, none of them passing
C6_Witness ==
    /\ pc = "done"
    /\ df # <<>>
    /\ HasEv("no_match")
    /\ PassingRows(cfg) = {}

----------------------------------------------------------------------------
(* get_stock_tickers *)

RowsOf(resp) == IF resp.ok THEN resp.rows ELSE <<>>

\* C7: a failed source contributes nothing and is logged, the other source
\* is unaffected, and the combined list is the first SP500_SLICE symbols of
\* source A, normalised, then the first FTSE100_SLICE symbols of source B,
\* suffixed, row by row in source order, duplicates kept.
C7_CombinedIsPrefixAThenPrefixB ==
    pc = "check_tickers" =>
        LET a == RowsOf(resp_sp500)
            b == RowsOf(resp_ftse100)
            na == Min(Len(a), SP500_SLICE)
            nb == Min(Len(b), FTSE100_SLICE)
        IN  /\ Len(tickers) = na + nb
            /\ \A i \in 1..na :
                  /\ Len(tickers[i]) = Len(a[i])
                  /\ \A j \in 1..Len(a[i]) :
                        tickers[i][j] = (IF a[i][j] = "." THEN "-" ELSE a[i][j])
            /\ \A i \in 1..nb :
                  /\ Len(tickers[na + i]) = Len(b[i]) + 2
                  /\ SubSeq(tickers[na + i], 1, Len(b[i])) = b[i]
                  /\ tickers[na + i][Len(b[i]) + 1] = "."
                  /\ tickers[na + i][Len(b[i]) + 2] = "L"
            /\ HasEv("error_sp500") <=> ~resp_sp500.ok
            /\ HasEv("error_ftse100") <=> ~resp_ftse100.ok

\* C7 witness: source A failed, source B returned more than FTSE100_SLICE
\* rows with repeated symbols, and the list holds B's prefix
C7_Witness ==
    /\ pc = "check_tickers"
    /\ ~resp_sp500.ok
    /\ resp_ftse100.ok
    /\ Len(resp_ftse100.rows) > FTSE100_SLICE
    /\ Len(tickers) = FTSE100_SLICE
    /\ tickers[1] = tickers[4]

----------------------------------------------------------------------------
(* the 200-day moving average *)

\* the mean of the last w closes of h, as its numerator over w
MeanOfLast(h, w) ==
    LET tail == SubSeq(h, Len(h) - w + 1, Len(h))
    IN  IF \A j \in 1..w : IsNum(tail[j])
           THEN Num(SumVals(tail, 1, w))
           ELSE NaNV

\* windows that agree with h on its last w closes: earlier rows dropped,
\* replaced, reversed, or more rows put in front
SameTail(h, w) ==
    LET n == Len(h) - w
        tail == SubSeq(h, n + 1, Len(h))
    IN  {SubSeq(h, k, Len(h)) : k \in 1..(n + 1)}
        \cup {[i \in 1..n |-> Num(1)] \o tail,
              [i \in 1..n |-> h[n + 1 - i]] \o tail,
              <<Num(7), NaNV, Num(100000)>> \o h}

\* C8: a history of fewer than MA_WINDOW rows gives exactly 0; a history of
\* MA_WINDOW rows or more gives the mean of its last MA_WINDOW closes, the
\* same for every window that agrees with it on those closes.
C8_MovingAverage ==
    pc = "ma_done" =>
        /\ Len(history) < MA_WINDOW => ma_200 = Num(0)
        /\ Len(history) >= MA_WINDOW =>
              /\ ma_200 = MeanOfLast(history, MA_WINDOW)
              /\ \A h2 \in SameTail(history, MA_WINDOW) : ComputeMA200(h2) = ma_200

\* C8 witness: a history longer than the window whose last MA_WINDOW closes
\* have another mean than its first MA_WINDOW closes
C8_Witness ==
    /\ pc = "ma_done"
    /\ Len(history) > MA_WINDOW
    /\ IsNum(ma_200)
    /\ ma_200.val # SumVals(history, 1, MA_WINDOW)

====
